---- MODULE Spec2Model ----
(***************************************************************************)
(* A model of the video streamer/encoder HTTP server (server.go).          *)
(*                                                                         *)
(* Strings are sequences of one-character strings, so that the regular     *)
(* expression, strconv.Atoi, filepath.Clean, strings.Contains and          *)
(* filepath.Join are computed character by character as the libraries do.  *)
(* The file system is a function from absolute cleaned paths to nodes.     *)
(* Every request slot runs handleTranscodeRequest; a cache miss adds the   *)
(* pump goroutine and the ffmpeg process of that request.                  *)
(***************************************************************************)
EXTENDS Integers, Sequences, FiniteSets, TLC

\* ---------------------------------------------------------------- bounds
\* Request slots served concurrently (a slot is reused once its request,
\* its goroutine and its process are finished).
NumReq == 2
\* Chunks (reads of at most one buffer) the encoder emits on stdout for the
\* source /i/a; the longer source /i/c has one more.
MaxChunks == 1
\* Longest filename part enumerated by the path specification.
MaxNameLen == 4

\* ------------------------------------------------------------- constants
\* strconv.Atoi range on a build whose int is 32 bits wide.
MaxInt == 2147483647
\* context.WithTimeout(context.Background(), 10*time.Second)
GracePeriod == 10

\* ---------------------------------------------------------- configuration
InputDir == <<"/", "i">>
OutputDir == <<"/", "o">>
Widths == {480, 720}

\* ------------------------------------------------------------- strings
Digits == <<"0", "1", "2", "3", "4", "5", "6", "7", "8", "9">>

IsDigit(c) == \E i \in 1..10 : Digits[i] = c

DigitVal(c) == (CHOOSE i \in 1..10 : Digits[i] = c) - 1

\* Length of the run of digits of s that starts at position i.
RECURSIVE DigitRun(_, _)
DigitRun(s, i) ==
  IF i <= Len(s) /\ IsDigit(s[i]) THEN 1 + DigitRun(s, i + 1) ELSE 0

\* urlRegex.FindStringSubmatch for ^/(\d+)p/(.+)$ : <<>> when the path does
\* not match, else <<path, width digits, filename>>.
FindStringSubmatch(p) ==
  IF Len(p) >= 1 /\ p[1] = "/"
  THEN LET n == DigitRun(p, 2) IN
       IF /\ n >= 1
          /\ Len(p) >= n + 4
          /\ p[n + 2] = "p"
          /\ p[n + 3] = "/"
       THEN <<p, SubSeq(p, 2, n + 1), SubSeq(p, n + 4, Len(p))>>
       ELSE <<>>
  ELSE <<>>

\* strconv.Atoi on a string of decimal digits: the value, or an error when
\* it does not fit an int.
RECURSIVE AtoiFrom(_, _, _)
AtoiFrom(s, i, v) ==
  IF i > Len(s) THEN [ok |-> TRUE, val |-> v]
  ELSE LET d == DigitVal(s[i]) IN
       IF v > (MaxInt - d) \div 10
       THEN [ok |-> FALSE, val |-> 0]
       ELSE AtoiFrom(s, i + 1, v * 10 + d)

Atoi(s) == AtoiFrom(s, 1, 0)

\* strconv.Itoa for a non-negative int.
RECURSIVE Itoa(_)
Itoa(n) ==
  IF n < 10 THEN <<Digits[n + 1]>>
  ELSE Itoa(n \div 10) \o <<Digits[(n % 10) + 1]>>

\* strings.Contains
Contains(s, sub) ==
  \E i \in 1..(Len(s) - Len(sub) + 1) : SubSeq(s, i, i + Len(sub) - 1) = sub

\* path.IsAbs
IsAbs(s) == Len(s) > 0 /\ s[1] = "/"

\* The elements of s between separators (empty elements included).
RECURSIVE SplitFrom(_, _, _)
SplitFrom(s, i, cur) ==
  IF i > Len(s) THEN <<cur>>
  ELSE IF s[i] = "/" THEN <<cur>> \o SplitFrom(s, i + 1, <<>>)
  ELSE SplitFrom(s, i + 1, Append(cur, s[i]))

Split(s) == SplitFrom(s, 1, <<>>)

DotDot == <<".", ".">>

\* filepath.Clean's pass over the elements: "." and empty elements are
\* dropped, ".." removes the element before it, is dropped at the root of
\* a rooted path and is kept at the start of a relative one.
RECURSIVE CleanElems(_, _, _, _)
CleanElems(elems, i, rooted, out) ==
  IF i > Len(elems) THEN out
  ELSE LET e == elems[i] IN
       IF e = <<>> \/ e = <<".">>
       THEN CleanElems(elems, i + 1, rooted, out)
       ELSE IF e = DotDot
       THEN IF Len(out) > 0 /\ out[Len(out)] # DotDot
            THEN CleanElems(elems, i + 1, rooted, SubSeq(out, 1, Len(out) - 1))
            ELSE IF rooted
            THEN CleanElems(elems, i + 1, rooted, out)
            ELSE CleanElems(elems, i + 1, rooted, Append(out, e))
       ELSE CleanElems(elems, i + 1, rooted, Append(out, e))

RECURSIVE JoinElems(_, _)
JoinElems(elems, i) ==
  IF i > Len(elems) THEN <<>>
  ELSE IF i = Len(elems) THEN elems[i]
  ELSE elems[i] \o <<"/">> \o JoinElems(elems, i + 1)

\* filepath.Clean
Clean(p) ==
  IF p = <<>> THEN <<".">>
  ELSE LET rooted == p[1] = "/"
           out == CleanElems(Split(p), 1, rooted, <<>>)
       IN IF rooted THEN <<"/">> \o JoinElems(out, 1)
          ELSE IF out = <<>> THEN <<".">>
          ELSE JoinElems(out, 1)

\* filepath.Join of two elements.
Join(a, b) ==
  IF a = <<>> /\ b = <<>> THEN <<>>
  ELSE IF a = <<>> THEN Clean(b)
  ELSE IF b = <<>> THEN Clean(a)
  ELSE Clean(a \o <<"/">> \o b)

\* filepath.Dir of a cleaned absolute path.
Dir(p) ==
  LET e == CleanElems(Split(p), 1, TRUE, <<>>) IN
  IF Len(e) = 0 THEN <<"/">>
  ELSE <<"/">> \o JoinElems(SubSeq(e, 1, Len(e) - 1), 1)

\* p lies strictly below directory d (both cleaned and absolute).
StrictlyBelow(p, d) ==
  /\ Len(p) > Len(d) + 1
  /\ SubSeq(p, 1, Len(d)) = d
  /\ p[Len(d) + 1] = "/"

\* ------------------------------------------------------------- requests
Reqs == 1..NumReq

\* Request paths of the concurrent specification: a source that exists, a
\* source that does not, a width that is not configured.
Urls ==
  { <<"/", "4", "8", "0", "p", "/", "a">>,
    <<"/", "4", "8", "0", "p", "/", "b">>,
    <<"/", "3", "6", "0", "p", "/", "a">> }

\* Request paths of the path specification: every filename part over the
\* alphabet up to MaxNameLen characters, after each prefix.
Alphabet == {"a", ".", "/"}

Names == UNION { [1..n -> Alphabet] : n \in 0..MaxNameLen }

Prefixes ==
  { <<"/", "4", "8", "0", "p", "/">>,
    <<"/", "0", "4", "8", "0", "p", "/">>,
    <<"/", "3", "6", "0", "p", "/">>,
    <<"/", "9", "9", "9", "9", "9", "9", "9", "9", "9", "9", "p", "/">>,
    <<"/", "4", "8", "0", "/">>,
    <<"/", "p", "/">>,
    <<"/">> }

AllUrls == { pre \o name : pre \in Prefixes, name \in Names }

VARIABLES
  fs,         \* the file system: absolute cleaned path -> node
  rq,         \* per request slot: the handler, its goroutine and its process
  server,     \* "serving", "shutdown", "stopped" (main returned), "fatal"
  elapsed,    \* seconds of the shutdown context that have passed
  generated   \* cache paths for which a generation has completed

vars == <<fs, rq, server, elapsed, generated>>

\* ---------------------------------------------------------- file system
\* A directory that was there when the server started, and one that
\* os.MkdirAll made while it ran.
DirNode == [kind |-> "dir", data |-> "none", by |-> 0]
MadeNode == [kind |-> "dir", data |-> "made", by |-> 0]
SrcNode == [kind |-> "file", data |-> "src", by |-> 0]

Exists(f, p) == p \in DOMAIN f

\* The error of a path lookup that found nothing at p: ENOTDIR when the
\* nearest existing ancestor is a file, else ENOENT.
RECURSIVE LookupErr(_, _)
LookupErr(f, p) ==
  IF Exists(f, p)
  THEN IF f[p].kind = "file" THEN "enotdir" ELSE "enoent"
  ELSE LookupErr(f, Dir(p))

\* os.Open / os.Stat of p: "ok", "enoent" (os.IsNotExist) or "enotdir".
Lookup(f, p) == IF Exists(f, p) THEN "ok" ELSE LookupErr(f, Dir(p))

\* The ancestors of p that are missing, p included.
RECURSIVE Missing(_, _)
Missing(f, p) ==
  IF Exists(f, p) THEN {} ELSE {p} \cup Missing(f, Dir(p))

\* os.MkdirAll(p): p and its missing ancestors become directories; an
\* error when p or an ancestor exists as a file.
MkdirAll(f, p) ==
  IF Exists(f, p)
  THEN [ok |-> f[p].kind = "dir", fs |-> f]
  ELSE IF LookupErr(f, Dir(p)) = "enotdir"
  THEN [ok |-> FALSE, fs |-> f]
  ELSE [ok |-> TRUE,
        fs |-> [q \in DOMAIN f \cup Missing(f, p) |->
                  IF q \in DOMAIN f THEN f[q] ELSE MadeNode]]

\* os.Remove(p) of a file (an error, ignored by the caller, when absent).
Remove(f, p) ==
  IF Exists(f, p) /\ f[p].kind = "file"
  THEN [q \in DOMAIN f \ {p} |-> f[q]]
  ELSE f

\* ------------------------------------------------------- request locals
Matches(u) == FindStringSubmatch(u)
WidthStr(u) == Matches(u)[2]
RawFilename(u) == Matches(u)[3]
Width(u) == Atoi(WidthStr(u)).val
Filename(u) == Clean(RawFilename(u))
OrigFilePath(u) == Join(InputDir, Filename(u))
OutputDirOf(u) == Join(OutputDir, Itoa(Width(u)))
TranscodedFilePath(u) == Join(OutputDirOf(u), Filename(u))

\* The width check without the loop over config.Widths.
WidthFoundAnyInt(u) == Atoi(WidthStr(u)).ok

\* The width check of lines 93-108.
WidthFound(u) == Atoi(WidthStr(u)).ok /\ Width(u) \in Widths

\* The filename check of line 112, on the cleaned filename.
UnsafeFilename(f) == Contains(f, <<".", ".", "/">>) \/ IsAbs(f)

\* net/http's containsDotDot: a ".." element in the request path.
ContainsDotDot(u) == \E i \in 1..Len(Split(u)) : Split(u)[i] = DotDot

IdleReq ==
  [ url |-> <<>>, pc |-> "idle", exit |-> "none",
    origFilePath |-> <<>>, outputDir |-> <<>>, transcodedFilePath |-> <<>>,
    hdr |-> "none", ctype |-> "none",
    code |-> 0, text |-> FALSE, served |-> "none", sent |-> <<>>, flushed |-> 0,
    ctxDone |-> FALSE,
    pump |-> "none", pumpExit |-> "none",
    proc |-> "none", procExit |-> "none", encOpen |-> FALSE, emitted |-> 0,
    pipe |-> <<>>, buf |-> 0, readerClosed |-> FALSE,
    late |-> FALSE, cancelMid |-> FALSE ]

\* rw.Header().Set("Content-Type", v) on the handler's header map.
SetHeader(q, v) == [q EXCEPT !.hdr = v]

\* http.ResponseWriter.WriteHeader: the first call fixes the status and
\* the headers the client receives; later calls change nothing.
WriteHeader(q, c) ==
  IF q.code = 0 THEN [q EXCEPT !.code = c, !.ctype = q.hdr] ELSE q

\* httpError: set the content type, WriteHeader(statusCode), Write(msg).
httpError(q, c) == [WriteHeader(SetHeader(q, "text"), c) EXCEPT !.text = TRUE]

\* The handler's return: the slot's exit is recorded and, once ServeHTTP
\* has returned, net/http cancels the request's context.
Return(q, e) == [q EXCEPT !.pc = "done", !.exit = e, !.ctxDone = TRUE]

Alive == server \in {"serving", "shutdown"}

Active(r) == rq[r].pc \notin {"idle", "done"}

\* A slot takes a new request once its handler has returned, its goroutine
\* has finished and its process is reaped.
Free(r) ==
  /\ ~Active(r)
  /\ rq[r].pump \in {"none", "closed"}
  /\ rq[r].proc \in {"none", "reaped"}

\* The source /i/c is one chunk longer than the source /i/a.
LongSource == Join(InputDir, <<"c">>)

InitFs ==
  LET srcs == { Join(InputDir, <<"a">>), LongSource }
      paths == { <<"/">>, InputDir, OutputDir } \cup srcs
  IN [p \in paths |-> IF p \in srcs THEN SrcNode ELSE DirNode]

Init ==
  /\ fs = InitFs
  /\ rq = [r \in Reqs |-> IdleReq]
  /\ server = "serving"
  /\ elapsed = 0
  /\ generated = {}

\* The request is for a cache path whose generation has completed.
Later(u) ==
  /\ generated # {}
  /\ Len(Matches(u)) = 3
  /\ WidthFound(u)
  /\ TranscodedFilePath(u) \in generated

\* ----------------------------------------------------------- the handler
\* A request with path u is dispatched to handleTranscodeRequest.
Arrive(r, u) ==
  /\ server = "serving"
  /\ Free(r)
  /\ rq' = [rq EXCEPT ![r] =
              [IdleReq EXCEPT !.url = u, !.pc = "validate", !.late = Later(u)]]
  /\ UNCHANGED <<fs, server, elapsed, generated>>

\* Lines 81-115: route match, width validation, filename sanitisation.
Validate(r) ==
  LET q == rq[r] u == q.url IN
  /\ Alive
  /\ q.pc = "validate"
  /\ rq' = [rq EXCEPT ![r] =
       IF Len(Matches(u)) # 3 THEN Return(httpError(q, 404), "notfound")
       ELSE IF ~Atoi(WidthStr(u)).ok THEN Return(httpError(q, 400), "badwidth")
       ELSE IF ~WidthFound(u) THEN Return(httpError(q, 400), "badwidth")
       ELSE IF UnsafeFilename(Filename(u)) THEN Return(httpError(q, 400), "badpath")
       ELSE [q EXCEPT !.pc = "open"]]
  /\ UNCHANGED <<fs, server, elapsed, generated>>

\* Lines 117-132: os.Open of the source path.
OpenOrig(r) ==
  LET q == [rq[r] EXCEPT !.origFilePath = OrigFilePath(rq[r].url)]
      res == Lookup(fs, q.origFilePath)
  IN
  /\ Alive
  /\ rq[r].pc = "open"
  /\ rq' = [rq EXCEPT ![r] =
       IF res = "ok" THEN [q EXCEPT !.pc = "mkdir"]
       ELSE IF res = "enoent" THEN Return(httpError(q, 404), "nosrc")
       ELSE Return(httpError(q, 500), "openerr")]
  /\ UNCHANGED <<fs, server, elapsed, generated>>

\* Lines 134-140: os.MkdirAll of OutputDir/<width>, then the cache path.
MakeOutputDir(r) ==
  LET q == [rq[r] EXCEPT !.outputDir = OutputDirOf(rq[r].url)]
      res == MkdirAll(fs, q.outputDir)
  IN
  /\ Alive
  /\ rq[r].pc = "mkdir"
  /\ fs' = res.fs
  /\ rq' = [rq EXCEPT ![r] =
       IF res.ok
       THEN [q EXCEPT !.pc = "stat",
                      !.transcodedFilePath = TranscodedFilePath(q.url)]
       ELSE Return(httpError(q, 500), "mkdirerr")]
  /\ UNCHANGED <<server, elapsed, generated>>

\* Lines 142-158: os.Stat of the cache path; the http.Flusher assertion
\* holds for every ResponseWriter of net/http's server.
StatTranscoded(r) ==
  LET q == rq[r] res == Lookup(fs, q.transcodedFilePath) IN
  /\ Alive
  /\ q.pc = "stat"
  /\ rq' = [rq EXCEPT ![r] =
       IF res = "ok" THEN [q EXCEPT !.pc = "serve"]
       ELSE IF res = "enoent" THEN [q EXCEPT !.pc = "start"]
       ELSE Return(httpError(q, 500), "staterr")]
  /\ UNCHANGED <<fs, server, elapsed, generated>>

\* Line 145: http.ServeFile(rw, req, transcodedFilePath).  It rejects a
\* request path with a ".." element, answers 404/500 when the file cannot
\* be opened, redirects to or lists a directory, and otherwise sends the
\* file as it is at that moment.
ServeFile(r) ==
  LET q == rq[r]
      u == q.url
      p == q.transcodedFilePath
      res == Lookup(fs, p)
  IN
  /\ Alive
  /\ q.pc = "serve"
  /\ rq' = [rq EXCEPT ![r] =
       IF ContainsDotDot(u) THEN Return(httpError(q, 400), "hit")
       ELSE IF res = "enoent" THEN Return(httpError(q, 404), "hit")
       ELSE IF res # "ok" THEN Return(httpError(q, 500), "hit")
       ELSE IF fs[p].kind = "dir"
       THEN IF u[Len(u)] # "/"
            THEN Return(WriteHeader(q, 301), "hit")
            ELSE Return([WriteHeader(q, 200) EXCEPT !.served = "dir"], "hit")
       ELSE Return([WriteHeader(SetHeader(q, "file"), 200)
                      EXCEPT !.served = fs[p].data], "hit")]
  /\ UNCHANGED <<fs, server, elapsed, generated>>

\* Lines 160-211: WriteHeader(200), then transcodeFile; on success the
\* deferred Kill/Wait and Close are registered and the pump goroutine is
\* started.  cmd.Start fails when ffmpeg cannot be executed or the pipe
\* cannot be made, and always when the context is already done.
StartTranscode(r) ==
  LET q == WriteHeader(SetHeader(rq[r], "video"), 200) IN
  /\ Alive
  /\ rq[r].pc = "start"
  /\ \E ok \in BOOLEAN :
       /\ ok => ~q.ctxDone
       /\ rq' = [rq EXCEPT ![r] =
            IF ok
            THEN [q EXCEPT !.pc = "select", !.proc = "running", !.pump = "select"]
            ELSE Return(httpError(q, 500), "startfail")]
  /\ UNCHANGED <<fs, server, elapsed, generated>>

\* The select without its doneCh case.
HandlerSelectCtxOnly(r) ==
  LET q == rq[r] IN
  /\ Alive
  /\ q.pc = "select"
  /\ q.ctxDone
  /\ rq' = [rq EXCEPT ![r] = [q EXCEPT !.pc = "deferClose", !.exit = "cancel"]]
  /\ UNCHANGED <<fs, server, elapsed, generated>>

\* Lines 213-218: select on ctx.Done() and doneCh.
HandlerSelect(r) ==
  LET q == rq[r] IN
  /\ Alive
  /\ q.pc = "select"
  /\ \/ /\ q.ctxDone
        /\ rq' = [rq EXCEPT ![r] = [q EXCEPT !.pc = "deferClose", !.exit = "cancel"]]
     \/ /\ q.pump = "closed"
        /\ rq' = [rq EXCEPT ![r] = [q EXCEPT !.pc = "deferClose", !.exit = "pumpdone"]]
  /\ UNCHANGED <<fs, server, elapsed, generated>>

\* Line 182: defer reader.Close(), the first deferred call to run.
DeferClose(r) ==
  LET q == rq[r] IN
  /\ Alive
  /\ q.pc = "deferClose"
  /\ rq' = [rq EXCEPT ![r] =
              [q EXCEPT !.pc = "deferKill", !.readerClosed = TRUE, !.pipe = <<>>]]
  /\ UNCHANGED <<fs, server, elapsed, generated>>

\* A process that stops leaves what it wrote: its file is no longer being
\* written.
Abandon(f, p, r) ==
  IF Exists(f, p) /\ f[p].by = r THEN [f EXCEPT ![p].by = 0] ELSE f

\* Line 176: trRet.cmd.Process.Kill() (an ignored error when the process
\* has already exited).
Kill(q) ==
  IF q.proc = "running"
  THEN [q EXCEPT !.proc = "exited", !.procExit = "killed"]
  ELSE q

\* The deferred function without its Wait.
WaitLeftOut(q) == q

\* Line 178: trRet.cmd.Wait() returns once the process has exited.
Wait(q) == [q EXCEPT !.proc = "reaped"]

\* A generation has completed: the pump reached the end of the stream, the
\* encoder exited with status 0 and its file is complete.
Generated(q, f) ==
  /\ q.exit = "pumpdone"
  /\ q.pumpExit = "eof"
  /\ q.procExit = "clean"
  /\ Exists(f, q.transcodedFilePath)
  /\ f[q.transcodedFilePath].data = "complete"

\* Lines 173-179: the deferred Kill and Wait; the handler then returns.
\* The killed process is gone when Wait returns.
DeferKillWait(r) ==
  LET q == rq[r] IN
  /\ Alive
  /\ q.pc = "deferKill"
  /\ Kill(q).proc = "exited"
  /\ rq' = [rq EXCEPT ![r] = Return(Wait(Kill(q)), q.exit)]
  /\ fs' = Abandon(fs, q.transcodedFilePath, r)
  /\ generated' = IF Generated(q, fs)
                  THEN generated \cup {q.transcodedFilePath}
                  ELSE generated
  /\ UNCHANGED <<server, elapsed>>

\* ------------------------------------------------------ the pump goroutine
\* Lines 190-193: the select with a default case.
PumpSelect(r) ==
  LET q == rq[r] IN
  /\ Alive
  /\ q.pump = "select"
  /\ rq' = [rq EXCEPT ![r] =
       IF q.ctxDone
       THEN [q EXCEPT !.pump = "closed", !.pumpExit = "cancel"]
       ELSE [q EXCEPT !.pump = "read"]]
  /\ UNCHANGED <<fs, server, elapsed, generated>>

\* Line 194: reader.Read(buf).  It returns an error once the handler has
\* closed the reader, a chunk when the pipe holds one, io.EOF when the pipe
\* is empty and the process has exited, and blocks otherwise.
PumpRead(r) ==
  LET q == rq[r] IN
  /\ Alive
  /\ q.pump = "read"
  /\ \/ /\ q.readerClosed
        /\ rq' = [rq EXCEPT ![r] = [q EXCEPT !.pump = "remove", !.pumpExit = "readerr"]]
     \/ /\ ~q.readerClosed
        /\ q.pipe # <<>>
        /\ rq' = [rq EXCEPT ![r] =
             [q EXCEPT !.pump = "write", !.buf = Head(q.pipe), !.pipe = Tail(@)]]
     \/ /\ ~q.readerClosed
        /\ q.pipe = <<>>
        /\ q.proc \in {"exited", "reaped"}
        /\ rq' = [rq EXCEPT ![r] = [q EXCEPT !.pump = "closed", !.pumpExit = "eof"]]
  /\ UNCHANGED <<fs, server, elapsed, generated>>

\* Lines 195-199: rw.Write(buf[:n]).  It can fail once the connection is
\* found closed; after the handler has returned the ResponseWriter may not
\* be used, and either outcome can follow.
PumpWrite(r) ==
  LET q == rq[r] IN
  /\ Alive
  /\ q.pump = "write"
  /\ \/ rq' = [rq EXCEPT ![r] =
          [q EXCEPT !.pump = "flush", !.sent = Append(@, q.buf), !.buf = 0]]
     \/ /\ q.ctxDone
        /\ rq' = [rq EXCEPT ![r] =
             [q EXCEPT !.pump = "closed", !.pumpExit = "writeerr", !.buf = 0]]
  /\ UNCHANGED <<fs, server, elapsed, generated>>

\* The loop without its Flush.
PumpFlushLeftOut(r) ==
  LET q == rq[r] IN
  /\ Alive
  /\ q.pump = "flush"
  /\ rq' = [rq EXCEPT ![r] = [q EXCEPT !.pump = "select"]]
  /\ UNCHANGED <<fs, server, elapsed, generated>>

\* Line 200: flusher.Flush(); the read had no error, so the loop goes on.
PumpFlush(r) ==
  LET q == rq[r] IN
  /\ Alive
  /\ q.pump = "flush"
  /\ rq' = [rq EXCEPT ![r] = [q EXCEPT !.pump = "select", !.flushed = @ + 1]]
  /\ UNCHANGED <<fs, server, elapsed, generated>>

\* Lines 202-207: a read error other than io.EOF removes the cache path.
PumpRemove(r) ==
  LET q == rq[r] IN
  /\ Alive
  /\ q.pump = "remove"
  /\ fs' = Remove(fs, q.transcodedFilePath)
  /\ rq' = [rq EXCEPT ![r] = [q EXCEPT !.pump = "closed"]]
  /\ UNCHANGED <<server, elapsed, generated>>

\* ----------------------------------------------------- the ffmpeg process
\* ffmpeg -y ... outputFile: the output is created or truncated before any
\* packet is written; this needs a regular input file and an existing
\* directory for the output.
CanOpenOutput(f, q) ==
  /\ Exists(f, q.origFilePath)
  /\ f[q.origFilePath].kind = "file"
  /\ Exists(f, Dir(q.transcodedFilePath))
  /\ f[Dir(q.transcodedFilePath)].kind = "dir"
  /\ Exists(f, q.transcodedFilePath) => f[q.transcodedFilePath].kind = "file"

EncOpenOutput(r) ==
  LET q == rq[r] p == q.transcodedFilePath IN
  /\ q.proc = "running"
  /\ ~q.encOpen
  /\ CanOpenOutput(fs, q)
  /\ fs' = [x \in DOMAIN fs \cup {p} |->
              IF x = p THEN [kind |-> "file", data |-> "partial", by |-> r]
              ELSE fs[x]]
  /\ rq' = [rq EXCEPT ![r] = [q EXCEPT !.encOpen = TRUE]]
  /\ UNCHANGED <<server, elapsed, generated>>

\* The chunks the encoder emits on stdout for the source of a request.
Chunks(q) == IF q.origFilePath = LongSource THEN MaxChunks + 1 ELSE MaxChunks

\* One chunk of the live payload is written to stdout.
EncEmit(r) ==
  LET q == rq[r] IN
  /\ q.proc = "running"
  /\ q.encOpen
  /\ q.emitted < Chunks(q)
  /\ ~q.readerClosed
  /\ rq' = [rq EXCEPT ![r] =
       [q EXCEPT !.emitted = @ + 1, !.pipe = Append(@, q.emitted + 1)]]
  /\ UNCHANGED <<fs, server, elapsed, generated>>

\* Both outputs are finished and the process exits with status 0.  The file
\* is complete when it is still the file this process created.
EncFinish(r) ==
  LET q == rq[r] p == q.transcodedFilePath IN
  /\ q.proc = "running"
  /\ q.encOpen
  /\ q.emitted = Chunks(q)
  /\ fs' = IF Exists(fs, p) /\ fs[p].by = r
           THEN [fs EXCEPT ![p] = [kind |-> "file", data |-> "complete", by |-> 0]]
           ELSE fs
  /\ rq' = [rq EXCEPT ![r] = [q EXCEPT !.proc = "exited", !.procExit = "clean"]]
  /\ UNCHANGED <<server, elapsed, generated>>

\* The process exits with a non-zero status: an input it cannot decode,
\* an output it cannot open, a write to a closed stdout.
EncFail(r) ==
  LET q == rq[r] IN
  /\ q.proc = "running"
  /\ fs' = Abandon(fs, q.transcodedFilePath, r)
  /\ rq' = [rq EXCEPT ![r] = [q EXCEPT !.proc = "exited", !.procExit = "fail"]]
  /\ UNCHANGED <<server, elapsed, generated>>

\* exec.CommandContext: the process is killed when the context is done.
CtxKill(r) ==
  LET q == rq[r] IN
  /\ Alive
  /\ q.proc = "running"
  /\ q.ctxDone
  /\ fs' = Abandon(fs, q.transcodedFilePath, r)
  /\ rq' = [rq EXCEPT ![r] = [q EXCEPT !.proc = "exited", !.procExit = "killed"]]
  /\ UNCHANGED <<server, elapsed, generated>>

\* ------------------------------------------------------------ the client
\* The client closes the connection; net/http's connection reader finds it
\* closed and cancels the request's context.
ClientDisconnect(r) ==
  LET q == rq[r] IN
  /\ Alive
  /\ Active(r)
  /\ ~q.ctxDone
  /\ rq' = [rq EXCEPT ![r] =
              [q EXCEPT !.ctxDone = TRUE,
                        !.cancelMid = (q.pc = "select" /\ q.pump # "closed")]]
  /\ UNCHANGED <<fs, server, elapsed, generated>>

\* ------------------------------------------------------------- main
\* Lines 70-74: a signal arrives and server.Shutdown closes the listeners.
Signal ==
  /\ server = "serving"
  /\ server' = "shutdown"
  /\ UNCHANGED <<fs, rq, elapsed, generated>>

\* A second of the shutdown context passes while Shutdown waits.
Tick ==
  /\ server = "shutdown"
  /\ elapsed < GracePeriod
  /\ elapsed' = elapsed + 1
  /\ UNCHANGED <<fs, rq, server, generated>>

\* What the operating system does to a process that exits: its goroutines
\* are gone, its pipe ends and connections are closed.
ProcessExit(q) == [q EXCEPT !.readerClosed = (q.proc # "none"), !.pipe = <<>>]

\* Lines 74-77: Shutdown returns nil once no request is in flight; main
\* returns.
ShutdownDone ==
  /\ server = "shutdown"
  /\ \A r \in Reqs : ~Active(r)
  /\ server' = "stopped"
  /\ rq' = [r \in Reqs |-> ProcessExit(rq[r])]
  /\ UNCHANGED <<fs, elapsed, generated>>

\* Lines 74-76: the context expires with a request in flight; Shutdown
\* returns the context's error and log.Fatalf exits the process.
ShutdownFailed ==
  /\ server = "shutdown"
  /\ elapsed = GracePeriod
  /\ \E r \in Reqs : Active(r)
  /\ server' = "fatal"
  /\ rq' = [r \in Reqs |-> ProcessExit(rq[r])]
  /\ UNCHANGED <<fs, elapsed, generated>>

\* -------------------------------------------------------- specifications
\* The handler, the goroutine, the process and the client of one request.
Step(r) ==
  \/ Validate(r)
  \/ OpenOrig(r)
  \/ MakeOutputDir(r)
  \/ StatTranscoded(r)
  \/ ServeFile(r)
  \/ StartTranscode(r)
  \/ HandlerSelect(r)
  \/ DeferClose(r)
  \/ DeferKillWait(r)
  \/ PumpSelect(r)
  \/ PumpRead(r)
  \/ PumpWrite(r)
  \/ PumpFlush(r)
  \/ PumpRemove(r)
  \/ EncOpenOutput(r)
  \/ EncEmit(r)
  \/ EncFinish(r)
  \/ EncFail(r)
  \/ CtxKill(r)
  \/ ClientDisconnect(r)

\* Concurrent requests against a serving server.
Next == \E r \in Reqs : (\E u \in Urls : Arrive(r, u)) \/ Step(r)

Spec == Init /\ [][Next]_vars

\* One request at a time, for the longer source too, and the server's life
\* cycle.
UrlsMain == Urls \cup { <<"/", "4", "8", "0", "p", "/", "c">> }

NextMain ==
  \/ \E u \in UrlsMain : Arrive(1, u)
  \/ Step(1)
  \/ Signal
  \/ Tick
  \/ ShutdownDone
  \/ ShutdownFailed

SpecMain == Init /\ [][NextMain]_vars

\* One request at a time against a serving server, with the scheduling the
\* runtime gives: the handler's goroutine and the pump goroutine each take a
\* step they can take, and the encoder process runs on (it emits, finishes
\* or fails, and dies when killed).
HandlerStep(r) == HandlerSelect(r) \/ DeferClose(r) \/ DeferKillWait(r)

PumpStep(r) ==
  PumpSelect(r) \/ PumpRead(r) \/ PumpWrite(r) \/ PumpFlush(r) \/ PumpRemove(r)

EncStep(r) ==
  EncOpenOutput(r) \/ EncEmit(r) \/ EncFinish(r) \/ EncFail(r) \/ CtxKill(r)

NextLive ==
  \/ \E u \in UrlsMain : Arrive(1, u)
  \/ Step(1)

SpecLive ==
  /\ Init
  /\ [][NextLive]_vars
  /\ WF_vars(HandlerStep(1))
  /\ WF_vars(PumpStep(1))
  /\ WF_vars(EncStep(1))

\* File systems an earlier run of the server can have left: nothing
\* cached, the width's directory there, the artifact of /480p/a complete,
\* the artifact of /480p/aa complete and its source since deleted.
Out480 == Join(OutputDir, Itoa(480))

ReadyNode == [kind |-> "file", data |-> "complete", by |-> 0]

CacheStates ==
  LET made == [x \in DOMAIN InitFs \cup {Out480} |->
                 IF x = Out480 THEN DirNode ELSE InitFs[x]]
      p == Join(Out480, <<"a">>)
      gone == Join(Out480, <<"a", "a">>)
  IN { InitFs,
       made,
       [x \in DOMAIN made \cup {p} |-> IF x = p THEN ReadyNode ELSE made[x]],
       [x \in DOMAIN made \cup {gone} |-> IF x = gone THEN ReadyNode ELSE made[x]] }

InitPaths ==
  /\ fs \in CacheStates
  /\ rq = [r \in Reqs |-> IdleReq]
  /\ server = "serving"
  /\ elapsed = 0
  /\ generated = {}

\* One request, with any request path, against each of these file systems.
ArriveOnce(u) == rq[1].pc = "idle" /\ Arrive(1, u)

NextPaths ==
  \/ \E u \in AllUrls : ArriveOnce(u)
  \/ Step(1)

SpecPaths == InitPaths /\ [][NextPaths]_vars

\* ------------------------------------------------------------- properties
\* Whether the handler of a slot has opened its source path.
Opened(q) ==
  /\ q.pc \notin {"idle", "validate", "open"}
  /\ q.exit \notin {"notfound", "badwidth", "badpath", "nosrc", "openerr"}

IsFile(f, p) == Exists(f, p) /\ f[p].kind = "file"

\* C1: Atomic visibility.  A request whose existence check found a file at
\* the canonical path, and which is about to serve it as a cache hit, finds
\* a fully written artifact that no encoder is still writing.
C1_AtomicVisibility ==
  \A r \in Reqs :
    (rq[r].pc = "serve" /\ IsFile(fs, rq[r].transcodedFilePath))
      => /\ fs[rq[r].transcodedFilePath].data = "complete"
         /\ fs[rq[r].transcodedFilePath].by = 0

\* C2: No corruption under cancellation.  When the client disconnected
\* after the encoder was started and before the pump had finished, then,
\* once the handler has returned and the pump goroutine has finished, no
\* file exists at the canonical cache path and the encoder is not running.
C2_NoCorruptionUnderCancellation ==
  \A r \in Reqs :
    (rq[r].cancelMid /\ rq[r].pc = "done" /\ rq[r].pump = "closed")
      => /\ ~Exists(fs, rq[r].transcodedFilePath)
         /\ rq[r].proc # "running"

\* C3: Idempotent re-serve.  A request that arrives after a generation of
\* its cache path has completed is answered 200 from the complete file at
\* the canonical path and starts no encoder.
C3_IdempotentReServe ==
  \A r \in Reqs :
    (rq[r].late /\ rq[r].pc = "done")
      => /\ rq[r].exit = "hit"
         /\ rq[r].code = 200
         /\ rq[r].served = "complete"
         /\ rq[r].proc = "none"

\* The filename part of a matching request path has a ".." element or is
\* absolute.
TraversalOrAbs(u) ==
  /\ Len(Matches(u)) = 3
  /\ \/ IsAbs(RawFilename(u))
     \/ \E i \in 1..Len(Split(RawFilename(u))) : Split(RawFilename(u))[i] = DotDot

WidthPermitted(u) ==
  /\ Len(Matches(u)) = 3
  /\ Atoi(Matches(u)[2]).ok
  /\ Atoi(Matches(u)[2]).val \in Widths

\* C4: A request with a permitted width whose filename part has a ".."
\* element or is absolute never opens a file, never starts an encoder and
\* is answered 400.
C4_UnsafeFilenameRejected ==
  \A r \in Reqs :
    (rq[r].pc # "idle" /\ WidthPermitted(rq[r].url) /\ TraversalOrAbs(rq[r].url))
      => /\ ~Opened(rq[r])
         /\ rq[r].proc = "none"
         /\ rq[r].pc = "done" => rq[r].code = 400

\* C5: Path containment.  The source path a handler has opened lies
\* strictly below InputDir, and the cache path it has computed lies
\* strictly below OutputDir/<width>.
C5_PathContainment ==
  \A r \in Reqs :
    /\ Opened(rq[r]) => StrictlyBelow(rq[r].origFilePath, InputDir)
    /\ rq[r].transcodedFilePath # <<>>
         => /\ StrictlyBelow(rq[r].outputDir, OutputDir)
            /\ StrictlyBelow(rq[r].transcodedFilePath, rq[r].outputDir)

\* The request path is "/", digits, "p/" and a filename part that may be
\* empty; its width component is not a configured width.
WidthComponentRefused(u) ==
  LET n == DigitRun(u, 2) IN
  /\ Len(u) >= n + 3
  /\ u[1] = "/"
  /\ n >= 1
  /\ u[n + 2] = "p"
  /\ u[n + 3] = "/"
  /\ ~(Atoi(SubSeq(u, 2, n + 1)).ok /\ Atoi(SubSeq(u, 2, n + 1)).val \in Widths)

\* C6 as stated: every request whose width component is not a configured
\* width is answered 400, whatever the filename part, the empty one
\* included.
C6_BadWidthAlways400 ==
  \A r \in Reqs :
    (rq[r].pc = "done" /\ WidthComponentRefused(rq[r].url)) => rq[r].code = 400

\* C6 as amended: every request that matches the route (its filename part
\* is not empty) and whose width is not a configured width, a digit string
\* too large for an int included, is answered 400 with a plain-text body,
\* whatever the filename and the cache state.
C6_BadWidth400WhenRouteMatches ==
  \A r \in Reqs :
    (rq[r].pc = "done" /\ Len(Matches(rq[r].url)) = 3 /\ ~WidthPermitted(rq[r].url))
      => /\ rq[r].code = 400
         /\ rq[r].text
         /\ rq[r].exit = "badwidth"

\* A width too large for an int, with a filename whose artifact is cached,
\* was answered 400.
C6_Witness ==
  \E r \in Reqs :
    /\ rq[r].pc = "done"
    /\ Len(Matches(rq[r].url)) = 3
    /\ ~Atoi(Matches(rq[r].url)[2]).ok
    /\ Filename(rq[r].url) = <<"a">>
    /\ IsFile(fs, Join(Out480, <<"a">>))
    /\ rq[r].code = 400

\* C7: When starting the encoder fails, the client receives 500 with a
\* plain-text body and no process is left.
C7_StartFailureIs500 ==
  \A r \in Reqs :
    (rq[r].pc = "done" /\ rq[r].exit = "startfail")
      => /\ rq[r].code = 500
         /\ rq[r].text
         /\ rq[r].proc = "none"

\* C8: A request answered 400 or 404 has created no directory and has
\* started no encoder (so it created and removed no file).  Stated for the
\* path specification, where the one request of a behaviour is the only
\* one that can have made a directory.
C8_ClientErrorNoSideEffects ==
  \A r \in Reqs :
    (rq[r].pc = "done" /\ rq[r].code \in {400, 404})
      => /\ \A p \in DOMAIN fs : fs[p] # MadeNode
         /\ rq[r].proc = "none"

\* C9: When a handler has returned, the encoder it started is terminated
\* and reaped.
C9_EncoderReaped ==
  \A r \in Reqs : rq[r].pc = "done" => rq[r].proc \in {"none", "reaped"}

\* A handler that returned on cancellation killed and reaped its encoder.
C9_Witness ==
  \E r \in Reqs :
    /\ rq[r].pc = "done"
    /\ rq[r].exit = "cancel"
    /\ rq[r].procExit = "killed"
    /\ rq[r].proc = "reaped"

\* C10: Graceful shutdown.  When the server process has exited, every
\* encoder a handler started is terminated and reaped.
C10_NoEncoderOutlivesServer ==
  server \in {"stopped", "fatal"}
    => \A r \in Reqs : rq[r].proc \in {"none", "reaped"}

\* The handler of a slot has returned from a cache miss and its goroutine
\* has finished.
MissFinished(q) ==
  /\ q.pc = "done"
  /\ q.pump = "closed"
  /\ q.proc = "reaped"

\* C11: A generation that failed mid-stream (a pipe read error, a write
\* error, an encoder that exited with a non-zero status) leaves no file at
\* the canonical path once the handler and its goroutine have finished.
C11_FailedGenerationLeavesMissing ==
  \A r \in Reqs :
    (/\ MissFinished(rq[r])
     /\ \/ rq[r].pumpExit \in {"readerr", "writeerr"}
        \/ rq[r].procExit = "fail")
      => ~Exists(fs, rq[r].transcodedFilePath)

\* C12: A file is left at the canonical path after a cache miss only if
\* the pump reached the clean end of the stream and the encoder exited
\* cleanly on its own.
C12_ReadyOnlyAfterCleanEnd ==
  \A r \in Reqs :
    (MissFinished(rq[r]) /\ Exists(fs, rq[r].transcodedFilePath))
      => /\ rq[r].pumpExit = "eof"
         /\ rq[r].procExit = "clean"

\* The request path passed the width and filename checks of lines 83-115.
Validated(u) ==
  /\ Len(Matches(u)) = 3
  /\ WidthFound(u)
  /\ ~UnsafeFilename(Filename(u))

\* C13: The cache lookup comes first.  A validated request that ran no
\* encoder and whose artifact is complete at the canonical path was served
\* that artifact with status 200, whether or not its source still exists.
C13_ReadyServedWithoutSource ==
  \A r \in Reqs :
    (/\ rq[r].pc = "done"
     /\ Validated(rq[r].url)
     /\ rq[r].proc = "none"
     /\ IsFile(fs, TranscodedFilePath(rq[r].url))
     /\ fs[TranscodedFilePath(rq[r].url)] = ReadyNode)
      => /\ rq[r].exit = "hit"
         /\ rq[r].code = 200
         /\ rq[r].served = "complete"

\* C14: Once the context of a request is done, its pump issues no Write
\* and no Flush on the response.
C14_NoWriteAfterCancel ==
  [][\A r \in Reqs :
       (rq[r].pump \in {"write", "flush"} /\ rq'[r].pump # rq[r].pump)
         => ~rq[r].ctxDone]_vars

C16_ReadyReadOnly ==
  [][\A p \in DOMAIN fs :
       fs[p] = ReadyNode => (p \in DOMAIN fs' /\ fs'[p] = ReadyNode)]_vars

\* The handler of a slot is past lines 161-163 of the cache-miss path.
Committed(q) ==
  \/ q.pc \in {"select", "deferClose", "deferKill"}
  \/ q.pc = "done" /\ q.exit \in {"startfail", "cancel", "pumpdone"}

\* C17: On the cache-miss path status 200 and the video content type are
\* committed before the first streamed chunk is written and stay what the
\* client receives; a failure after the commit writes no error text into
\* the body.
C17_CommitThenStreamOnly ==
  \A r \in Reqs :
    /\ rq[r].sent # <<>> => Committed(rq[r])
    /\ Committed(rq[r])
         => /\ rq[r].code = 200
            /\ rq[r].ctype = "video"
            /\ ~rq[r].text

\* C18: After the handler has returned, its pump goroutine performs no
\* Write and no Flush on the response, no read that ends in the removal of
\* the cache path, and no os.Remove.
C18_PumpQuietAfterReturn ==
  [][\A r \in Reqs :
       rq[r].pc = "done"
         => /\ rq[r].pump \in {"write", "flush", "remove"}
                 => rq'[r].pump = rq[r].pump
            /\ rq[r].pump = "read" => rq'[r].pump # "remove"]_vars

\* C19: Termination without leaks.  Every cache-miss invocation that has
\* started its encoder eventually returns with the encoder reaped and the
\* pump goroutine finished.
C19_MissTerminates ==
  \A r \in Reqs :
    (rq[r].pc = "select") ~> MissFinished(rq[r])

\* A handler returned on cancellation while its goroutine was in Read: the
\* closed reader ended the Read, the goroutine finished, the encoder was
\* reaped.
C19_Witness ==
  \E r \in Reqs :
    /\ MissFinished(rq[r])
    /\ rq[r].exit = "cancel"
    /\ rq[r].pumpExit = "readerr"
    /\ rq[r].procExit = "killed"
====
